---- MODULE Spec2Model ----
(***************************************************************************)
(* State-machine model of egui-pixel-editor: the Pixel Surface, the tiled  *)
(* render cache (tiled_image.rs), the sparse undo/redo log (undo.rs) and    *)
(* the write chain the editor builds over them (image_editor.rs).           *)
(***************************************************************************)
EXTENDS Integers, Sequences, FiniteSets, TLC

(***************************************************************************)
(* Bounds of the model.                                                     *)
(***************************************************************************)
\* Side of one tile (TiledEguiImage::from_tile_size takes any size).
TileSize == 2
\* Pixel-changing writes over one behaviour of the undo log alone.
MaxWrites == 3
\* Pixel-changing writes over one behaviour of the whole editor.
MaxDrawnWrites == 2
\* Largest history bound (the public field max_frames) that Init chooses.
MaxHistory == 2
\* Largest brush half-extent of the geometry calls.
MaxExtent == 8

\* Color32::TRANSPARENT, the sentinel sample_patch pushes outside the crop.
TRANSPARENT == 0
\* Color32::WHITE, a draw colour (0 and 1 are the two pixel values modelled).
WHITE == 1

Pixel == {TRANSPARENT, WHITE}

\* The boundary rectangles <<x_lo, x_hi, y_lo, y_hi>> a Surface may report:
\* one with its origin at (0, 0), as a ColorImage has, and one with negative
\* coordinates (Image::image_boundaries is a trait method over isize).
Boundaries == { <<0, 2, 0, 0>>, <<0 - 2, 0, 0, 0>> }

VARIABLES
    x_range,      \* Surface: image_boundaries().0 as <<start, end>>
    y_range,      \* Surface: image_boundaries().1 as <<start, end>>
    pixels,       \* Surface content: [in-boundary <<x, y>> -> Pixel]
    tiles,        \* TiledEguiImage.tiles: [tile coordinate -> Tile]
    textures,     \* the host texture manager: textures[tex_id] is a patch
    changes,      \* SparseImageUndoer.changes (the done-stack)
    redo,         \* SparseImageUndoer.redo
    max_frames,   \* SparseImageUndoer.max_frames
    assert_ok,    \* FALSE once a debug_assert! of undo()/redo() has failed
    first_done,   \* history: per done-frame, {<<x, y, value before the
                  \*          frame's first write to (x, y)>>}
    first_redo,   \* history: the same for the frames of the redo stack
    last,         \* history: the operation that led to this state
    writes,       \* history: pixel-changing writes made so far
    script,       \* history of the strokes-then-undos scenario
    call          \* the geometry call made last: [op, args, ret]

vars == << x_range, y_range, pixels, tiles, textures, changes, redo,
           max_frames, assert_ok, first_done, first_redo, last, writes, script,
           call >>

surface_vars == << x_range, y_range >>
editor_vars == << x_range, y_range, pixels, tiles, textures, changes, redo,
                  max_frames, assert_ok, first_done, first_redo, last, writes, script >>
script_vars == << script, call >>

----------------------------------------------------------------------------
(***************************************************************************)
(* Helpers                                                                  *)
(***************************************************************************)
Min(a, b) == IF a <= b THEN a ELSE b
Max(a, b) == IF a >= b THEN a ELSE b

\* Rust's `/` on isize truncates toward zero (b > 0 here).
RustDiv(a, b) == IF a >= 0 THEN a \div b ELSE 0 - ((0 - a) \div b)

Last(s) == s[Len(s)]
Front(s) == SubSeq(s, 1, Len(s) - 1)

\* RangeInclusive::contains
contains(r, v) == r[1] <= v /\ v <= r[2]

Coords == { <<x, y>> : x \in x_range[1]..x_range[2], y \in y_range[1]..y_range[2] }

\* Coordinates a caller may pass: the boundaries and a margin outside them.
CallX == (x_range[1] - 1)..x_range[2]
CallY == y_range[1]..(y_range[2] + 1)

----------------------------------------------------------------------------
(***************************************************************************)
(* image.rs                                                                 *)
(***************************************************************************)
\* ImageExt::bounds_check over the boundaries <<xr, yr>>
bounds_check(xr, yr, x, y) == contains(xr, x) /\ contains(yr, y)

\* PixelInterface::as_rgba for Color32
as_rgba(px) == px

\* crop() that keeps the requested ranges as they are
crop_unclamped(xr, yr, rx, ry) == [ x_range |-> rx, y_range |-> ry ]

\* ImageExt::crop: the clamped ranges of the Crop view
crop(xr, yr, rx, ry) ==
    [ x_range |-> << Max(rx[1], xr[1]), Min(rx[2], xr[2]) >>,
      y_range |-> << Max(ry[1], yr[1]), Min(ry[2], yr[2]) >> ]

\* Crop::image_boundaries of the Crop c = [x_range, y_range]
crop_image_boundaries(c) == << c.x_range, c.y_range >>

\* get_pixel of the inner Surface px: a coordinate it does not hold faults
inner_get_pixel(px, x, y) ==
    IF << x, y >> \in DOMAIN px
    THEN [ fault |-> FALSE, forwarded |-> TRUE, value |-> << px[<< x, y >>] >>, pixels |-> px ]
    ELSE [ fault |-> TRUE, forwarded |-> TRUE, value |-> << >>, pixels |-> px ]

\* set_pixel of the inner Surface px
inner_set_pixel(px, x, y, v) ==
    IF << x, y >> \in DOMAIN px
    THEN [ fault |-> FALSE, forwarded |-> TRUE, value |-> << >>,
           pixels |-> [px EXCEPT ![<< x, y >>] = v] ]
    ELSE [ fault |-> TRUE, forwarded |-> TRUE, value |-> << >>, pixels |-> px ]

\* Crop::get_pixel: the assert!, then self.image.get_pixel(x, y)
crop_get_pixel(c, px, x, y) ==
    IF contains(c.x_range, x) /\ contains(c.y_range, y)
    THEN inner_get_pixel(px, x, y)
    ELSE [ fault |-> TRUE, forwarded |-> FALSE, value |-> << >>, pixels |-> px ]

\* Crop::set_pixel without its assert!
crop_set_pixel_unasserted(c, px, x, y, v) == inner_set_pixel(px, x, y, v)

\* Crop::set_pixel: the assert!, then self.image.set_pixel(x, y, px)
crop_set_pixel(c, px, x, y, v) ==
    IF contains(c.x_range, x) /\ contains(c.y_range, y)
    THEN inner_set_pixel(px, x, y, v)
    ELSE [ fault |-> TRUE, forwarded |-> FALSE, value |-> << >>, pixels |-> px ]

----------------------------------------------------------------------------
(***************************************************************************)
(* tiled_image.rs                                                           *)
(***************************************************************************)
texture_width == TileSize

\* TiledEguiImage::calc_tile
calc_tile(x, y) == << RustDiv(x, texture_width), RustDiv(y, texture_width) >>

\* TiledEguiImage::notify_change
notify_change(ts, x, y) ==
    LET tile_pos == calc_tile(x, y)
    IN  IF tile_pos \in DOMAIN ts
        THEN [ts EXCEPT ![tile_pos].is_dirty = TRUE]
        ELSE ts

\* TileChangeTracker::set_pixel over img = [pixels, tiles]
tracker_set_pixel(img, x, y, px) ==
    [ pixels |-> [img.pixels EXCEPT ![<<x, y>>] = px],
      tiles  |-> notify_change(img.tiles, x, y) ]

\* TileChangeTracker::image_boundaries that reports whole tiles
tracker_image_boundaries_tiles(b) ==
    << << RustDiv(b[1][1], texture_width) * texture_width,
          RustDiv(b[1][2], texture_width) * texture_width + texture_width - 1 >>,
       b[2] >>

\* TileChangeTracker::image_boundaries, b being self.image.image_boundaries()
tracker_image_boundaries(b) == b

\* sample_patch over a Crop view c of the Surface px: texture_width rows of
\* texture_width colours, entry (i, j) at index i + j * texture_width (+ 1).
sample_patch(px, c) ==
    [ k \in 1..(texture_width * texture_width) |->
        LET i == (k - 1) % texture_width
            j == (k - 1) \div texture_width
            x == i + c.x_range[1]
            y == j + c.y_range[1]
        IN  IF bounds_check(c.x_range, c.y_range, x, y)
            THEN as_rgba(px[<<x, y>>])
            ELSE TRANSPARENT ]

\* The closure get_patch of draw() for the tile at (tile_x, tile_y)
get_patch(px, xr, yr, tile) ==
    LET x == tile[1] * texture_width
        y == tile[2] * texture_width
    IN  sample_patch(px, crop(xr, yr, << x, x + texture_width - 1 >>,
                                      << y, y + texture_width - 1 >>))

\* The tiles draw() visits, in loop order (tile_y outer, tile_x inner)
draw_order(xr, yr) ==
    LET tx0 == RustDiv(xr[1], texture_width)
        tx1 == RustDiv(xr[2], texture_width)
        ty0 == RustDiv(yr[1], texture_width)
        ty1 == RustDiv(yr[2], texture_width)
        nx  == tx1 - tx0 + 1
        ny  == ty1 - ty0 + 1
    IN  [ k \in 1..(nx * ny) |-> << tx0 + ((k - 1) % nx), ty0 + ((k - 1) \div nx) >> ]

\* The pixel region draw() paints a tile over (tile_rect, before the
\* translation by pos): <<x, x + texture_width - 1, y, y + texture_width - 1>>
tile_rect(tile) ==
    LET x == tile[1] * texture_width
        y == tile[2] * texture_width
    IN  << x, x + texture_width - 1, y, y + texture_width - 1 >>

\* draw()'s loop body refreshing a dirty tile without clearing its flag
draw_tile_keeps_dirty(cache, px, xr, yr, tile) ==
    LET patch == get_patch(px, xr, yr, tile)
        c1 == IF tile \in DOMAIN cache.tiles
              THEN cache
              ELSE [ tiles    |-> cache.tiles @@
                                  (tile :> [ tex_id   |-> Len(cache.textures) + 1,
                                             is_dirty |-> FALSE ]),
                     textures |-> Append(cache.textures, patch) ]
        t  == c1.tiles[tile]
    IN  IF t.is_dirty
        THEN [ tiles    |-> c1.tiles,
               textures |-> [c1.textures EXCEPT ![t.tex_id] = patch] ]
        ELSE c1

\* One iteration of draw()'s loop body on cache = [tiles, textures]
draw_tile(cache, px, xr, yr, tile) ==
    LET patch == get_patch(px, xr, yr, tile)
        \* entry().or_insert_with: alloc + Tile::new on first visit
        c1 == IF tile \in DOMAIN cache.tiles
              THEN cache
              ELSE [ tiles    |-> cache.tiles @@
                                  (tile :> [ tex_id   |-> Len(cache.textures) + 1,
                                             is_dirty |-> FALSE ]),
                     textures |-> Append(cache.textures, patch) ]
        t  == c1.tiles[tile]
    IN  IF t.is_dirty
        THEN [ tiles    |-> [c1.tiles EXCEPT ![tile].is_dirty = FALSE],
               textures |-> [c1.textures EXCEPT ![t.tex_id] = patch] ]
        ELSE c1

RECURSIVE draw_loop(_, _, _, _, _, _)
draw_loop(cache, px, xr, yr, order, k) ==
    IF k > Len(order) THEN cache
    ELSE draw_loop(draw_tile(cache, px, xr, yr, order[k]), px, xr, yr, order, k + 1)

\* TiledEguiImage::draw
draw(cache, px, xr, yr) == draw_loop(cache, px, xr, yr, draw_order(xr, yr), 1)

----------------------------------------------------------------------------
(***************************************************************************)
(* ellipse.rs                                                               *)
(***************************************************************************)
\* isize::BITS: the loop of solve_ellipse runs for _ in 0..=isize::BITS
BITS == 64

\* ellipse(wx, wy, x, y)
ellipse(wx, wy, x, y) ==
    LET x2  == x * x
        y2  == y * y
        wx2 == wx * wx
        wy2 == wy * wy
    IN  y2 * wx2 <= wy2 * wx2 - wy2 * x2

\* The loop of solve_ellipse returning max where the code returns min
RECURSIVE solve_loop_returns_max(_, _, _, _, _, _)
solve_loop_returns_max(wx, wy, x, min, max, k) ==
    IF k > BITS THEN [ ret |-> 0, iters |-> k, fault |-> TRUE ]
    ELSE LET mid == RustDiv(max + min, 2)
         IN  IF ellipse(wx, wy, x, max) \/ (max - min = 1 /\ ellipse(wx, wy, x, min))
             THEN [ ret |-> max, iters |-> k + 1, fault |-> FALSE ]
             ELSE IF ellipse(wx, wy, x, mid)
                  THEN solve_loop_returns_max(wx, wy, x, mid, max, k + 1)
                  ELSE solve_loop_returns_max(wx, wy, x, min, mid, k + 1)

\* The loop of solve_ellipse lowering max by one instead of halving
RECURSIVE solve_loop_linear(_, _, _, _, _, _)
solve_loop_linear(wx, wy, x, min, max, k) ==
    IF k > BITS THEN [ ret |-> 0, iters |-> k, fault |-> TRUE ]
    ELSE IF ellipse(wx, wy, x, max)
         THEN [ ret |-> max, iters |-> k + 1, fault |-> FALSE ]
         ELSE IF max - min = 1 /\ ellipse(wx, wy, x, min)
              THEN [ ret |-> min, iters |-> k + 1, fault |-> FALSE ]
              ELSE solve_loop_linear(wx, wy, x, min, max - 1, k + 1)

\* The loop of solve_ellipse after k completed iterations: ret is the value
\* returned, iters the iterations entered, fault the unreachable!() after
\* the last of the BITS + 1 iterations.
RECURSIVE solve_loop(_, _, _, _, _, _)
solve_loop(wx, wy, x, min, max, k) ==
    IF k > BITS THEN [ ret |-> 0, iters |-> k, fault |-> TRUE ]
    ELSE LET mid       == RustDiv(max + min, 2)
             check_min == ellipse(wx, wy, x, min)
             check_max == ellipse(wx, wy, x, max)
             check_mid == ellipse(wx, wy, x, mid)
         IN  IF check_max
             THEN [ ret |-> max, iters |-> k + 1, fault |-> FALSE ]
             ELSE IF max - min = 1 /\ check_min
                  THEN [ ret |-> min, iters |-> k + 1, fault |-> FALSE ]
                  ELSE IF check_mid
                       THEN solve_loop(wx, wy, x, mid, max, k + 1)
                       ELSE solve_loop(wx, wy, x, min, mid, k + 1)

\* solve_ellipse(wx, wy, x); a failed assert!() is a fault as well
solve_ellipse(wx, wy, x) ==
    IF wx >= 0 /\ wy >= 0 /\ x <= wx /\ x >= 0 - wx
    THEN solve_loop(wx, wy, x, 0, wy, 0)
    ELSE [ ret |-> 0, iters |-> 0, fault |-> TRUE ]

\* tests::solve_ellipse_naive: the downward scan from wy
RECURSIVE naive_scan(_, _, _, _)
naive_scan(wx, wy, x, y) ==
    IF ~ellipse(wx, wy, x, y) /\ y > 0 THEN naive_scan(wx, wy, x, y - 1) ELSE y

solve_ellipse_naive(wx, wy, x) == naive_scan(wx, wy, x, wy)

----------------------------------------------------------------------------
(***************************************************************************)
(* brush.rs and the Brush of image_editor.rs.  A brush is a record          *)
(* [kind, wx, wy]; pixels() is modelled by the sequence of its calls of f.  *)
(***************************************************************************)
Ellipse(wx, wy) == [ kind |-> "Ellipse", wx |-> wx, wy |-> wy ]
Rectangle(wx, wy) == [ kind |-> "Rectangle", wx |-> wx, wy |-> wy ]

\* for dx in -mx..mx { f(x + dx, y + dy) }: the end of the range left out
span_exclusive(mx, x, y, dy) == [ k \in 1..(2 * mx) |-> << x - mx + (k - 1), y + dy >> ]

\* for dx in -mx..=mx { f(x + dx, y + dy) }
span(mx, x, y, dy) == [ k \in 1..(2 * mx + 1) |-> << x - mx + (k - 1), y + dy >> ]

\* The scanline of brush.rs solving the ellipse upright, not on its side
brush_row_upright(brush, x, y, dy) ==
    IF brush.kind = "Ellipse"
    THEN span(solve_ellipse(brush.wx, brush.wy, dy).ret, x, y, dy)
    ELSE span(brush.wx, x, y, dy)

\* brush.rs: the body of one iteration of `for dy in -wy..=wy`
brush_row(brush, x, y, dy) ==
    IF brush.kind = "Ellipse"
    THEN span(solve_ellipse(brush.wy, brush.wx, dy).ret, x, y, dy)
    ELSE span(brush.wx, x, y, dy)

RECURSIVE brush_rows(_, _, _, _)
brush_rows(brush, x, y, dy) ==
    IF dy > brush.wy THEN << >>
    ELSE brush_row(brush, x, y, dy) \o brush_rows(brush, x, y, dy + 1)

\* brush.rs Brush::pixels: calls is the sequence of f(x, y) calls, fault a
\* fault of solve_ellipse on some scanline
brush_pixels(brush, x, y) ==
    [ calls |-> brush_rows(brush, x, y, 0 - brush.wy),
      fault |-> /\ brush.kind = "Ellipse"
                /\ \E dy \in (0 - brush.wy)..brush.wy :
                      solve_ellipse(brush.wy, brush.wx, dy).fault ]

\* brush.rs Brush::draw, Ellipse arm: ny of the column dx of the outline
brush_draw_ny(brush, dx) == solve_ellipse(brush.wx, brush.wy, dx).ret + 1

\* brush.rs Brush::draw, Ellipse arm: the pixel offsets the outline encloses.
\* Over the column [dx, dx + 1] the outline runs at height ny and, mirrored
\* (v.y -> -v.y + 1), at height -ny + 1; the pixel (dx, dy) is the square
\* [dx, dx + 1] x [dy, dy + 1].
brush_draw_enclosed(brush) ==
    { << dx, dy >> \in ((0 - brush.wx)..brush.wx) \X ((0 - brush.wy - 1)..(brush.wy + 1)) :
         1 - brush_draw_ny(brush, dx) <= dy /\ dy + 1 <= brush_draw_ny(brush, dx) }

\* image_editor.rs: the test of Brush::pixels for the offset (dx, dy)
editor_covers(brush, dx, dy) ==
    LET dx2 == dx * dx
        dy2 == dy * dy
        wx2 == brush.wx * brush.wx
        wy2 == brush.wy * brush.wy
    IN  brush.kind = "Ellipse" => dy2 * wx2 < wy2 * wx2 - wy2 * dx2

RECURSIVE editor_brush_rows(_, _, _, _)
editor_brush_rows(brush, x, y, dy) ==
    IF dy > brush.wy THEN << >>
    ELSE SelectSeq(span(brush.wx, x, y, dy), LAMBDA c : editor_covers(brush, c[1] - x, dy))
         \o editor_brush_rows(brush, x, y, dy + 1)

\* image_editor.rs Brush::pixels
editor_brush_pixels(brush, x, y) ==
    [ calls |-> editor_brush_rows(brush, x, y, 0 - brush.wy), fault |-> FALSE ]

----------------------------------------------------------------------------
(***************************************************************************)
(* undo.rs: an UndoFrame is a sequence of entries <<x, y, old, new>>.       *)
(***************************************************************************)
\* new_frame() that never drops history
new_frame_keep_all(chs, mf) == Append(chs, << >>)

\* SparseImageUndoer::new_frame
new_frame(chs, mf) ==
    LET pushed == Append(chs, << >>)
    IN  IF Len(pushed) > mf THEN Tail(pushed) ELSE pushed

\* set_pixel() that leaves the redo stack alone
undoer_set_pixel_keep_redo(u, img, x, y, new_px) ==
    LET chs    == IF u.changes = << >> THEN << << >> >> ELSE u.changes
        old_px == img.pixels[<<x, y>>]
    IN  IF new_px # old_px
        THEN [ changes |-> [chs EXCEPT ![Len(chs)] = Append(@, <<x, y, old_px, new_px>>)],
               redo    |-> u.redo,
               img     |-> tracker_set_pixel(img, x, y, new_px) ]
        ELSE [ changes |-> chs, redo |-> u.redo, img |-> img ]

\* set_pixel() that records and applies a write of an equal value as well
undoer_set_pixel_records_equal(u, img, x, y, new_px) ==
    LET chs    == IF u.changes = << >> THEN << << >> >> ELSE u.changes
        old_px == img.pixels[<<x, y>>]
    IN  [ changes |-> [chs EXCEPT ![Len(chs)] = Append(@, <<x, y, old_px, new_px>>)],
          redo    |-> << >>,
          img     |-> tracker_set_pixel(img, x, y, new_px) ]

\* SparseImageUndoer::set_pixel, the image being a TileChangeTracker
\* img = [pixels, tiles] (UndoChangeTracker::set_pixel forwards here).
undoer_set_pixel(u, img, x, y, new_px) ==
    LET chs    == IF u.changes = << >> THEN << << >> >> ELSE u.changes
        old_px == img.pixels[<<x, y>>]
    IN  IF new_px # old_px
        THEN [ changes |-> [chs EXCEPT ![Len(chs)] = Append(@, <<x, y, old_px, new_px>>)],
               redo    |-> << >>,
               img     |-> tracker_set_pixel(img, x, y, new_px) ]
        ELSE [ changes |-> chs, redo |-> u.redo, img |-> img ]

\* UndoChangeTracker::image_boundaries, b being self.image.image_boundaries()
undo_tracker_image_boundaries(b) == b

\* ImageExt::get_pixel_checked on the UndoChangeTracker: Some(pixel) is
\* << pixel >>, None is << >>
get_pixel_checked(img, xr, yr, x, y) ==
    IF bounds_check(xr, yr, x, y) THEN << img.pixels[<< x, y >>] >> ELSE << >>

\* set_pixel_checked() that reports every write as applied
set_pixel_checked_always_true(u, img, xr, yr, x, y, px) ==
    IF bounds_check(xr, yr, x, y)
    THEN undoer_set_pixel(u, img, x, y, px) @@ [ret |-> TRUE]
    ELSE [ changes |-> u.changes, redo |-> u.redo, img |-> img, ret |-> TRUE ]

\* ImageExt::set_pixel_checked on the UndoChangeTracker (image_editor.rs:113-116)
set_pixel_checked(u, img, xr, yr, x, y, px) ==
    LET ret == bounds_check(xr, yr, x, y)
    IN  IF ret
        THEN undoer_set_pixel(u, img, x, y, px) @@ [ret |-> TRUE]
        ELSE [ changes |-> u.changes, redo |-> u.redo, img |-> img, ret |-> FALSE ]

\* The loop of undo(): pop frames until a non-empty one is found
RECURSIVE pop_non_empty(_)
pop_non_empty(chs) ==
    IF chs = << >>
    THEN [ found |-> FALSE, frame |-> << >>, rest |-> << >> ]
    ELSE IF Last(chs) # << >>
         THEN [ found |-> TRUE, frame |-> Last(chs), rest |-> Front(chs) ]
         ELSE pop_non_empty(Front(chs))

\* undo() replaying the frame oldest entry first
RECURSIVE undo_replay_forward(_, _, _)
undo_replay_forward(img, frame, k) ==
    IF k = 0 THEN [ img |-> img, ok |-> TRUE ]
    ELSE LET e == frame[Len(frame) - k + 1]
             r == undo_replay_forward(tracker_set_pixel(img, e[1], e[2], e[3]), frame, k - 1)
         IN  [ img |-> r.img, ok |-> r.ok ]

\* undo() writing the new value of each entry instead of the old one
RECURSIVE undo_replay_new(_, _, _)
undo_replay_new(img, frame, k) ==
    IF k = 0 THEN [ img |-> img, ok |-> TRUE ]
    ELSE LET e == frame[k]
             r == undo_replay_new(tracker_set_pixel(img, e[1], e[2], e[4]), frame, k - 1)
         IN  [ img |-> r.img, ok |-> (e[4] = img.pixels[<<e[1], e[2]>>]) /\ r.ok ]

\* The replay loop of undo(): entries in reverse order, writing old; ok is
\* the conjunction of the debug_assert!(new == image.get_pixel(x, y)).
RECURSIVE undo_replay(_, _, _)
undo_replay(img, frame, k) ==
    IF k = 0 THEN [ img |-> img, ok |-> TRUE ]
    ELSE LET e == frame[k]
             r == undo_replay(tracker_set_pixel(img, e[1], e[2], e[3]), frame, k - 1)
         IN  [ img |-> r.img, ok |-> (e[4] = img.pixels[<<e[1], e[2]>>]) /\ r.ok ]


\* redo() replaying the frame newest entry first (call with k = Len(frame))
RECURSIVE redo_replay_backward_from(_, _, _)
redo_replay_backward_from(img, frame, k) ==
    IF k < 1 THEN [ img |-> img, ok |-> TRUE ]
    ELSE LET e == frame[k]
             r == redo_replay_backward_from(tracker_set_pixel(img, e[1], e[2], e[4]), frame, k - 1)
         IN  [ img |-> r.img, ok |-> (e[3] = img.pixels[<<e[1], e[2]>>]) /\ r.ok ]

redo_replay_backward(img, frame, k) == redo_replay_backward_from(img, frame, Len(frame))

\* The replay loop of redo(): entries in forward order, writing new; ok is
\* the conjunction of the debug_assert!(old == image.get_pixel(x, y)).
RECURSIVE redo_replay(_, _, _)
redo_replay(img, frame, k) ==
    IF k > Len(frame) THEN [ img |-> img, ok |-> TRUE ]
    ELSE LET e == frame[k]
             r == redo_replay(tracker_set_pixel(img, e[1], e[2], e[4]), frame, k + 1)
         IN  [ img |-> r.img, ok |-> (e[3] = img.pixels[<<e[1], e[2]>>]) /\ r.ok ]

\* undo() that pushes a frame onto the redo stack also when it found none
undo_pushes_exhausted(u, img) ==
    LET p == pop_non_empty(u.changes)
        r == undo_replay(img, p.frame, Len(p.frame))
    IN  [ changes |-> p.rest, redo |-> Append(u.redo, p.frame), img |-> r.img,
          ok |-> r.ok, acted |-> p.found ]

\* SparseImageUndoer::undo
undo(u, img) ==
    LET p == pop_non_empty(u.changes)
        r == undo_replay(img, p.frame, Len(p.frame))
    IN  IF ~p.found
        THEN [ changes |-> p.rest, redo |-> u.redo, img |-> img,
               ok |-> TRUE, acted |-> FALSE ]
        ELSE [ changes |-> p.rest, redo |-> Append(u.redo, p.frame), img |-> r.img,
               ok |-> r.ok, acted |-> TRUE ]

\* redo() that pushes the replayed frame back onto the redo stack
undoer_redo_keeps_frame(u, img) ==
    IF u.redo = << >>
    THEN [ changes |-> u.changes, redo |-> u.redo, img |-> img,
           ok |-> TRUE, acted |-> FALSE ]
    ELSE LET frame == Last(u.redo)
             r     == redo_replay(img, frame, 1)
         IN  [ changes |-> u.changes, redo |-> Append(Front(u.redo), frame),
               img |-> r.img, ok |-> r.ok, acted |-> TRUE ]

\* SparseImageUndoer::redo
undoer_redo(u, img) ==
    IF u.redo = << >>
    THEN [ changes |-> u.changes, redo |-> u.redo, img |-> img,
           ok |-> TRUE, acted |-> FALSE ]
    ELSE LET frame == Last(u.redo)
             r     == redo_replay(img, frame, 1)
         IN  [ changes |-> Append(u.changes, frame), redo |-> Front(u.redo),
               img |-> r.img, ok |-> r.ok, acted |-> TRUE ]

----------------------------------------------------------------------------
(***************************************************************************)
(* History bookkeeping (not program state)                                  *)
(***************************************************************************)
\* Index of the most recent non-empty frame of a stack (0: none)
RECURSIVE top_non_empty(_)
top_non_empty(frames) ==
    IF frames = << >> THEN 0
    ELSE IF Last(frames) # << >> THEN Len(frames) ELSE top_non_empty(Front(frames))

\* first-value set s with the first write to (x, y) noted
note_first(s, x, y, before) ==
    IF \E t \in s : t[1] = x /\ t[2] = y THEN s ELSE s \cup { <<x, y, before>> }

NoArgs == [ op |-> "init", acted |-> FALSE, note |-> "", pre |-> << >> ]

NoCall == [ op |-> "none", args |-> << >>, ret |-> << >> ]

----------------------------------------------------------------------------
(***************************************************************************)
(* The state machine                                                        *)
(***************************************************************************)
InitPixel(c) == IF (c[1] + c[2]) % 3 = 0 THEN WHITE ELSE TRANSPARENT

\* The editor after construction over a Surface (the scenario history apart)
EditorInit ==
    /\ \E b \in Boundaries :
          /\ x_range = << b[1], b[2] >>
          /\ y_range = << b[3], b[4] >>
          /\ pixels = [ c \in { <<x, y>> : x \in b[1]..b[2], y \in b[3]..b[4] } |-> InitPixel(c) ]
    /\ tiles = << >>
    /\ textures = << >>
    /\ changes = << >>
    /\ redo = << >>
    /\ max_frames \in 1..MaxHistory
    /\ assert_ok = TRUE
    /\ first_done = << >>
    /\ first_redo = << >>
    /\ last = NoArgs
    /\ writes = 0
    /\ call = NoCall

Init ==
    /\ EditorInit
    /\ script = [ phase |-> "strokes", snaps |-> << >>, nundo |-> 0 ]

\* SparseImageUndoer::new_frame (a gesture starts)
NewFrameStep ==
    /\ changes' = new_frame(changes, max_frames)
    /\ first_done' = LET p == Append(first_done, {})
                     IN  IF Len(p) > max_frames THEN Tail(p) ELSE p
    /\ last' = [ NoArgs EXCEPT !.op = "new_frame", !.acted = TRUE ]
    /\ UNCHANGED << surface_vars, pixels, tiles, textures, redo, max_frames,
                    assert_ok, first_redo, writes >>

\* One bounds-checked write through undo tracker -> tile tracker -> Surface
SetPixelStep(x, y, px) ==
    LET r == set_pixel_checked([changes |-> changes, redo |-> redo],
                               [pixels |-> pixels, tiles |-> tiles],
                               x_range, y_range, x, y, px)
        changed == r.img.pixels # pixels
        fd0 == IF r.ret /\ first_done = << >> THEN << {} >> ELSE first_done
    IN  /\ writes' = IF changed THEN writes + 1 ELSE writes
        /\ changes' = r.changes
        /\ redo' = r.redo
        /\ pixels' = r.img.pixels
        /\ tiles' = r.img.tiles
        /\ first_done' = IF changed
                         THEN [fd0 EXCEPT ![Len(fd0)] = note_first(@, x, y, pixels[<<x, y>>])]
                         ELSE fd0
        /\ first_redo' = IF changed THEN << >> ELSE first_redo
        /\ last' = [ NoArgs EXCEPT !.op = "set_pixel", !.acted = changed,
                                   !.note = IF changed /\ redo # << >> THEN "cleared_redo"
                                            ELSE IF ~r.ret THEN "clipped" ELSE "" ]
        /\ UNCHANGED << surface_vars, textures, max_frames, assert_ok >>

\* SparseImageUndoer::undo on the tile tracker (image_editor.rs:61, 73)
UndoStep ==
    LET r == undo([changes |-> changes, redo |-> redo], [pixels |-> pixels, tiles |-> tiles])
        i == top_non_empty(first_done)
        j == top_non_empty(changes)
    IN  /\ changes' = r.changes
        /\ redo' = r.redo
        /\ pixels' = r.img.pixels
        /\ tiles' = r.img.tiles
        /\ assert_ok' = (assert_ok /\ r.ok)
        /\ first_done' = SubSeq(first_done, 1, Min(Len(first_done), Max(j - 1, 0)))
        /\ first_redo' = IF j > 0 /\ j <= Len(first_done)
                         THEN Append(first_redo, first_done[j]) ELSE first_redo
        /\ last' = [ NoArgs EXCEPT !.op = "undo", !.acted = r.acted,
                                   !.note = IF ~r.acted /\ changes # << >>
                                            THEN "skipped_empty_frames" ELSE "",
                                   !.pre = IF r.acted THEN pixels ELSE << >> ]
        /\ UNCHANGED << surface_vars, textures, max_frames, writes >>

\* SparseImageUndoer::redo on the tile tracker (image_editor.rs:61, 86)
RedoStep ==
    LET r == undoer_redo([changes |-> changes, redo |-> redo], [pixels |-> pixels, tiles |-> tiles])
    IN  /\ changes' = r.changes
        /\ redo' = r.redo
        /\ pixels' = r.img.pixels
        /\ tiles' = r.img.tiles
        /\ assert_ok' = (assert_ok /\ r.ok)
        /\ first_done' = IF redo # << >> /\ first_redo # << >>
                         THEN Append(first_done, Last(first_redo)) ELSE first_done
        /\ first_redo' = IF redo # << >> /\ first_redo # << >>
                         THEN Front(first_redo) ELSE first_redo
        /\ last' = [ NoArgs EXCEPT !.op = "redo", !.acted = r.acted,
                                   !.note = IF last.op = "undo" /\ last.acted THEN "after_undo"
                                            ELSE IF last.op = "set_pixel" /\ last.note = "cleared_redo"
                                                 THEN "after_clearing_write" ELSE "" ]
        /\ UNCHANGED << surface_vars, textures, max_frames, writes >>

\* TiledEguiImage::draw against the raw Surface
DrawStep ==
    LET r == draw([tiles |-> tiles, textures |-> textures], pixels, x_range, y_range)
    IN  /\ tiles' = r.tiles
        /\ textures' = r.textures
        /\ last' = [ NoArgs EXCEPT !.op = "draw", !.acted = TRUE ]
        /\ UNCHANGED << surface_vars, pixels, changes, redo, max_frames, assert_ok,
                        first_done, first_redo, writes >>

\* TiledEguiImage::notify_change called directly
NotifyChangeStep(x, y) ==
    /\ tiles' = notify_change(tiles, x, y)
    /\ last' = [ NoArgs EXCEPT !.op = "notify_change", !.acted = (tiles' # tiles) ]
    /\ UNCHANGED << surface_vars, pixels, textures, changes, redo, max_frames, assert_ok,
                    first_done, first_redo, writes >>

(***************************************************************************)
(* Spec: the editor's operations over Surface, render cache and undo log.   *)
(***************************************************************************)
NewFrame == NewFrameStep /\ UNCHANGED script_vars
SetPixel ==
    /\ writes < MaxDrawnWrites
    /\ \E x \in CallX, y \in CallY, px \in Pixel : SetPixelStep(x, y, px)
    /\ UNCHANGED script_vars
Undo == UndoStep /\ UNCHANGED script_vars
Redo == RedoStep /\ UNCHANGED script_vars
Draw == DrawStep /\ UNCHANGED script_vars
NotifyChange == \E x \in CallX, y \in CallY : NotifyChangeStep(x, y) /\ UNCHANGED script_vars

Next == NewFrame \/ SetPixel \/ Undo \/ Redo \/ Draw \/ NotifyChange

Spec == Init /\ [][Next]_vars

(***************************************************************************)
(* UndoSpec: the undo log and the Surface alone (nothing is drawn, so the   *)
(* tile table stays empty), with a longer run of writes.                    *)
(***************************************************************************)
LogSetPixel ==
    /\ writes < MaxWrites
    /\ \E x \in CallX, y \in CallY, px \in Pixel : SetPixelStep(x, y, px)
    /\ UNCHANGED script_vars

UndoNext == NewFrame \/ LogSetPixel \/ Undo \/ Redo

\* The Surface of the undo-log specifications has its origin at (0, 0).
LogInit == Init /\ x_range[1] = 0

UndoSpec == LogInit /\ [][UndoNext]_vars

(***************************************************************************)
(* EvictSpec: strokes, each opened by new_frame() and changing at least one *)
(* pixel, followed by undo() calls only.  script.snaps[i] is the Surface at *)
(* the start of stroke i.                                                   *)
(***************************************************************************)
StrokeStart ==
    /\ script.phase = "strokes"
    /\ script.snaps # << >> => (changes # << >> /\ Last(changes) # << >>)
    /\ NewFrameStep
    /\ script' = [script EXCEPT !.snaps = Append(@, pixels)]
    /\ UNCHANGED call

StrokeWrite ==
    /\ script.phase = "strokes"
    /\ script.snaps # << >>
    /\ writes < MaxWrites
    /\ \E x \in CallX, y \in CallY, px \in Pixel : SetPixelStep(x, y, px)
    /\ UNCHANGED script_vars

StrokeUndo ==
    /\ script.snaps # << >>
    /\ script.phase = "undos" \/ (changes # << >> /\ Last(changes) # << >>)
    /\ script.nundo <= Len(script.snaps)
    /\ UndoStep
    /\ script' = [script EXCEPT !.phase = "undos", !.nundo = @ + 1]
    /\ UNCHANGED call

EvictNext == StrokeStart \/ StrokeWrite \/ StrokeUndo

EvictSpec == LogInit /\ [][EvictNext]_vars

(***************************************************************************)
(* PatchSpec: draw() over Surfaces of any small boundary rectangle and any  *)
(* content.  A Surface need not start at (0, 0) nor at a multiple of the    *)
(* tile width: a Crop view is itself an Image (image.rs:85-114).            *)
(***************************************************************************)
PatchBoundaries ==
    { << xl, xl + dx, yl, yl + dy >> : xl \in (0 - 2)..1, dx \in 0..2, yl \in 0..1, dy \in 0..1 }

PatchInit ==
    /\ \E b \in PatchBoundaries :
          /\ x_range = << b[1], b[2] >>
          /\ y_range = << b[3], b[4] >>
          /\ pixels \in [ { <<x, y>> : x \in b[1]..b[2], y \in b[3]..b[4] } -> Pixel ]
    /\ tiles = << >>
    /\ textures = << >>
    /\ changes = << >>
    /\ redo = << >>
    /\ max_frames = MaxHistory
    /\ assert_ok = TRUE
    /\ first_done = << >>
    /\ first_redo = << >>
    /\ last = NoArgs
    /\ writes = 0
    /\ script = [ phase |-> "strokes", snaps |-> << >>, nundo |-> 0 ]
    /\ call = NoCall

PatchNext == Draw

PatchSpec == PatchInit /\ [][PatchNext]_vars

(***************************************************************************)
(* EllipseSpec: the geometry functions called on their own, over every      *)
(* half-extent up to MaxExtent.  The functions are pure, so each behaviour   *)
(* makes one call.                                                          *)
(***************************************************************************)
Extents == 0..MaxExtent
Brushes == { Ellipse(wx, wy) : wx \in Extents, wy \in Extents }
               \cup { Rectangle(wx, wy) : wx \in Extents, wy \in Extents }
Centres == { <<0, 0>>, <<2, 0 - 1>> }

SolveEllipse ==
    /\ call = NoCall
    /\ \E wx \in Extents, wy \in Extents :
          \E x \in (0 - wx)..wx :
             call' = [ op |-> "solve_ellipse", args |-> << wx, wy, x >>,
                       ret |-> solve_ellipse(wx, wy, x) ]
    /\ UNCHANGED editor_vars

BrushPixels ==
    /\ call = NoCall
    /\ \E brush \in Brushes, c \in Centres :
          call' = [ op |-> "pixels", args |-> << brush, c[1], c[2] >>,
                    ret |-> brush_pixels(brush, c[1], c[2]) ]
    /\ UNCHANGED editor_vars

EditorBrushPixels ==
    /\ call = NoCall
    /\ \E brush \in Brushes, c \in Centres :
          call' = [ op |-> "editor_pixels", args |-> << brush, c[1], c[2] >>,
                    ret |-> editor_brush_pixels(brush, c[1], c[2]) ]
    /\ UNCHANGED editor_vars

EllipseNext == SolveEllipse \/ BrushPixels \/ EditorBrushPixels

EllipseInit == LogInit /\ max_frames = MaxHistory

EllipseSpec == EllipseInit /\ [][EllipseNext]_vars

----------------------------------------------------------------------------
(***************************************************************************)
(* image_editor.rs: ImageEditor::edit, one interaction tick.                *)
(* An event is [kind, key, pressed, repeat, modifiers], modifiers a set of  *)
(* flags.                                                                   *)
(***************************************************************************)
Keys == {"Z", "Y", "A", "Escape"}
ModifierSets == SUBSET {"COMMAND", "SHIFT", "ALT"}
KeyEvent(key, pressed, modifiers) ==
    [ kind |-> "Key", key |-> key, pressed |-> pressed, repeat |-> FALSE,
      modifiers |-> modifiers ]
Events ==
    [ kind : {"Key"}, key : Keys, pressed : BOOLEAN, repeat : BOOLEAN,
      modifiers : ModifierSets ]
        \cup { [ kind |-> "PointerMoved", key |-> "A", pressed |-> FALSE,
                 repeat |-> FALSE, modifiers |-> {} ] }

\* egui's Modifiers::matches_logically as the guards of edit() call it: the
\* command flag must agree, shift and alt of the pattern must be held, and
\* shift or alt held beyond the pattern do not matter.
matches_logically(modifiers, pattern) ==
    /\ "ALT" \in pattern => "ALT" \in modifiers
    /\ "SHIFT" \in pattern => "SHIFT" \in modifiers
    /\ "COMMAND" \in pattern <=> "COMMAND" \in modifiers

\* The match of edit()'s event loop, arms in source order: the command the
\* event invokes
command(event) ==
    IF /\ event.kind = "Key" /\ event.key = "Z" /\ event.pressed
       /\ matches_logically(event.modifiers, {"COMMAND"})
    THEN "undo"
    ELSE IF /\ event.kind = "Key" /\ event.pressed
            /\ \/ (matches_logically(event.modifiers, {"COMMAND"}) /\ event.key = "Y")
               \/ (matches_logically(event.modifiers, {"SHIFT", "COMMAND"}) /\ event.key = "Z")
         THEN "redo"
         ELSE "none"

\* s = [u, img, ok, steps] (u the undoer, img the TileChangeTracker, steps
\* the trace of the operations performed) after the command c returned r
edit_commanded(s, c, r) ==
    [ u     |-> [changes |-> r.changes, redo |-> r.redo],
      img   |-> r.img,
      ok    |-> s.ok /\ r.ok,
      steps |-> Append(s.steps, c) ]

\* The event loop of edit()
RECURSIVE edit_events(_, _, _)
edit_events(s, events, k) ==
    IF k > Len(events) THEN s
    ELSE IF command(events[k]) = "undo"
         THEN edit_events(edit_commanded(s, "undo", undo(s.u, s.img)), events, k + 1)
         ELSE IF command(events[k]) = "redo"
              THEN edit_events(edit_commanded(s, "redo", undoer_redo(s.u, s.img)),
                               events, k + 1)
              ELSE edit_events(s, events, k + 1)

\* s after one call of the closure edit() hands to brush.pixels returned r
edit_written(s, r) ==
    [s EXCEPT !.u = [changes |-> r.changes, redo |-> r.redo], !.img = r.img]

\* brush.pixels(x, y, |x, y| { image.set_pixel_checked(x, y, draw_color); })
RECURSIVE edit_brush(_, _, _, _, _, _)
edit_brush(s, xr, yr, calls, k, draw_color) ==
    IF k > Len(calls) THEN s
    ELSE edit_brush(edit_written(s, set_pixel_checked(s.u, s.img, xr, yr, calls[k][1],
                                                     calls[k][2], draw_color)),
                    xr, yr, calls, k + 1, draw_color)

\* The editor after the tick and what the tick went through: s after the
\* brush, the cache after draw(), the TileChangeTracker before and after
\* the event loop
edit_result(s, cache, from, to) ==
    [ pixels   |-> s.img.pixels,
      tiles    |-> s.img.tiles,
      textures |-> cache.textures,
      changes  |-> s.u.changes,
      redo     |-> s.u.redo,
      ok       |-> s.ok,
      steps    |-> s.steps,
      commanded |-> [ from |-> from, to |-> to ] ]

\* edit() from line 111: the brush, s being the state after the event loop
edit_pointer(s, cache, from, xr, yr, tick) ==
    IF tick.pointer = << >>
    THEN edit_result(s, cache, from, s.img)
    ELSE edit_result(edit_brush([s EXCEPT !.steps = Append(@, "brush")], xr, yr,
                                editor_brush_pixels(tick.brush, tick.pointer[1],
                                                    tick.pointer[2]).calls,
                                1, tick.draw_color),
                     cache, from, s.img)

\* edit() from line 61: the event loop on the tracker over the drawn cache
edit_tracked(s, cache, xr, yr, tick) ==
    edit_pointer(edit_events(s, tick.events, 1), cache, s.img, xr, yr, tick)

\* edit() from line 59: draw(), chs being the done-stack after line 57
edit_draw(ed, chs, cache, xr, yr, tick) ==
    edit_tracked([ u     |-> [changes |-> chs, redo |-> ed.redo],
                   img   |-> [pixels |-> ed.pixels, tiles |-> cache.tiles],
                   ok    |-> TRUE,
                   steps |-> (IF tick.gesture THEN << "new_frame" >> ELSE << >>)
                                \o << "draw" >> ],
                 cache, xr, yr, tick)

\* ImageEditor::edit.  tick = [gesture, events, pointer, brush, draw_color]:
\* gesture is resp.drag_started() || resp.clicked(), pointer the pixel of
\* resp.interact_pointer_pos() or << >>.
edit(ed, xr, yr, mf, tick) ==
    edit_draw(ed,
              IF tick.gesture THEN new_frame(ed.changes, mf) ELSE ed.changes,
              draw([tiles |-> ed.tiles, textures |-> ed.textures], ed.pixels, xr, yr),
              xr, yr, tick)

(***************************************************************************)
(* EditSpec: the editor driven tick by tick through ImageEditor::edit.      *)
(* A tick carries one event, or a pointer position with a brush, or         *)
(* nothing.  In this specification script follows a stroke that opened a    *)
(* gesture with a rectangle brush and changed a pixel (phase "stroke", snaps *)
(* = the Surface before                                                     *)
(* and after it) through a tick with one undo() ("undone") and a tick with  *)
(* one redo() ("redone"); first_done and first_redo are not kept.           *)
(***************************************************************************)
EditBrushes == { Rectangle(1, 1), Ellipse(1, 1) }

\* The events of the ticks: the three shortcuts and a key without modifiers
EditEvents ==
    { KeyEvent("Z", TRUE, {"COMMAND"}), KeyEvent("Z", TRUE, {"COMMAND", "SHIFT"}),
      KeyEvent("Y", TRUE, {"COMMAND"}), KeyEvent("Z", TRUE, {}) }

NoTick == [ gesture |-> FALSE, events |-> << >>, pointer |-> << >>,
            brush |-> Rectangle(0, 0), draw_color |-> WHITE ]

NoScript == [ phase |-> "strokes", snaps |-> << >>, nundo |-> 0 ]

\* The scenario after a tick that invoked the commands cmds and led from the
\* Surface before (after its event loop) to the Surface after
next_script(tick, cmds, before, after) ==
    IF tick.pointer # << >>
    THEN IF /\ tick.gesture /\ tick.events = << >> /\ before # after
            /\ tick.brush.kind = "Rectangle"
         THEN [ phase |-> "stroke", snaps |-> << before, after >>, nundo |-> 0 ]
         ELSE NoScript
    ELSE IF tick.gesture THEN NoScript
    ELSE IF cmds = << >> THEN script
    ELSE IF script.phase = "stroke" /\ cmds = << "undo" >>
         THEN [script EXCEPT !.phase = "undone"]
    ELSE IF script.phase = "undone" /\ cmds = << "redo" >>
         THEN [script EXCEPT !.phase = "redone"]
    ELSE NoScript

\* The undo() and redo() calls a tick made, in order
invoked(steps) == SelectSeq(steps, LAMBDA st : st \in {"undo", "redo"})

EditStep(tick) ==
    \E r \in { edit([pixels |-> pixels, tiles |-> tiles, textures |-> textures,
                     changes |-> changes, redo |-> redo],
                    x_range, y_range, max_frames, tick) } :
        /\ pixels' = r.pixels
        /\ tiles' = r.tiles
        /\ textures' = r.textures
        /\ changes' = r.changes
        /\ redo' = r.redo
        /\ assert_ok' = (assert_ok /\ r.ok)
        /\ writes' = writes + Cardinality({ c \in Coords : r.pixels[c] # r.commanded.to.pixels[c] })
        /\ last' = [ NoArgs EXCEPT !.op = "edit", !.acted = TRUE ]
        /\ call' = [ op |-> "edit", args |-> tick,
                     ret |-> [ steps |-> r.steps, commanded |-> r.commanded ] ]
        /\ script' = next_script(tick, invoked(r.steps), r.commanded.to.pixels, r.pixels)
        /\ UNCHANGED << surface_vars, max_frames, first_done, first_redo >>

\* A tick with one input event and no pointer interaction
EditCommand == \E e \in EditEvents : EditStep([NoTick EXCEPT !.events = << e >>])

\* A tick with a pointer interaction: the brush is applied
EditPaint ==
    /\ writes < MaxDrawnWrites
    /\ \E g \in BOOLEAN, x \in CallX, b \in EditBrushes, px \in Pixel :
       \E y \in y_range[1]..y_range[2] :
          EditStep([ gesture |-> g, events |-> << >>, pointer |-> << x, y >>,
                     brush |-> b, draw_color |-> px ])

\* A tick with neither
EditIdle == EditStep(NoTick)

EditNext == EditCommand \/ EditPaint \/ EditIdle

EditSpec == Init /\ [][EditNext]_vars

(***************************************************************************)
(* KeySpec: one tick of ImageEditor::edit for every input event.            *)
(***************************************************************************)
KeyTick ==
    /\ call = NoCall
    /\ \E e \in Events : EditStep([NoTick EXCEPT !.events = << e >>])

KeyNext == KeyTick

KeyInit == Init /\ max_frames = MaxHistory

KeySpec == KeyInit /\ [][KeyNext]_vars

----------------------------------------------------------------------------
(***************************************************************************)
(* lib.rs: the single-file revision of the editor.  Its undoer has no       *)
(* max_frames and its edit() hands the raw Surface to undo() and redo().    *)
(***************************************************************************)
\* lib.rs SparseImageUndoer::new_frame
lib_new_frame(chs) == Append(chs, << >>)

\* lib.rs SparseImageUndoer::set_pixel on the TileChangeTracker img
lib_set_pixel(u, img, x, y, new_px) ==
    LET chs    == IF u.changes = << >> THEN << << >> >> ELSE u.changes
        old_px == img.pixels[<<x, y>>]
    IN  IF new_px # old_px
        THEN [ changes |-> [chs EXCEPT ![Len(chs)] = Append(@, <<x, y, old_px, new_px>>)],
               redo    |-> u.redo,
               img     |-> tracker_set_pixel(img, x, y, new_px) ]
        ELSE [ changes |-> chs, redo |-> u.redo, img |-> img ]

\* The replay loops of lib.rs undo() and redo() on the raw Surface px:
\* entry k of frame, then the entries before it (undo) or after it (redo)
RECURSIVE lib_undo_replay(_, _, _)
lib_undo_replay(px, frame, k) ==
    IF k = 0 THEN [ pixels |-> px, ok |-> TRUE ]
    ELSE LET e == frame[k]
             r == lib_undo_replay([px EXCEPT ![<<e[1], e[2]>>] = e[3]], frame, k - 1)
         IN  [ pixels |-> r.pixels, ok |-> (e[4] = px[<<e[1], e[2]>>]) /\ r.ok ]

RECURSIVE lib_redo_replay(_, _, _)
lib_redo_replay(px, frame, k) ==
    IF k > Len(frame) THEN [ pixels |-> px, ok |-> TRUE ]
    ELSE LET e == frame[k]
             r == lib_redo_replay([px EXCEPT ![<<e[1], e[2]>>] = e[4]], frame, k + 1)
         IN  [ pixels |-> r.pixels, ok |-> (e[3] = px[<<e[1], e[2]>>]) /\ r.ok ]

\* undo() after popping frame: chs is the rest of the done-stack and r the
\* replay's result
lib_undone(u, chs, frame, r) ==
    [ changes |-> chs, redo |-> Append(u.redo, frame), pixels |-> r.pixels, ok |-> r.ok ]

\* lib.rs SparseImageUndoer::undo on the raw Surface
lib_undo(u, px) ==
    IF u.changes = << >>
    THEN [ changes |-> u.changes, redo |-> u.redo, pixels |-> px, ok |-> TRUE ]
    ELSE lib_undone(u, Front(u.changes), Last(u.changes),
                    lib_undo_replay(px, Last(u.changes), Len(Last(u.changes))))

\* redo() after popping frame: the frame goes back onto the redo stack
lib_redone(u, frame, r) ==
    [ changes |-> u.changes, redo |-> Append(Front(u.redo), frame),
      pixels |-> r.pixels, ok |-> r.ok ]

\* lib.rs SparseImageUndoer::redo on the raw Surface
lib_redo(u, px) ==
    IF u.redo = << >>
    THEN [ changes |-> u.changes, redo |-> u.redo, pixels |-> px, ok |-> TRUE ]
    ELSE lib_redone(u, Last(u.redo), lib_redo_replay(px, Last(u.redo), 1))

\* s = [u, pixels, ok, steps] after the command c returned r
lib_commanded(s, c, r) ==
    [ u      |-> [changes |-> r.changes, redo |-> r.redo],
      pixels |-> r.pixels,
      ok     |-> s.ok /\ r.ok,
      steps  |-> Append(s.steps, c) ]

\* The event loop of lib.rs edit()
RECURSIVE lib_edit_events(_, _, _)
lib_edit_events(s, events, k) ==
    IF k > Len(events) THEN s
    ELSE IF command(events[k]) = "undo"
         THEN lib_edit_events(lib_commanded(s, "undo", lib_undo(s.u, s.pixels)),
                              events, k + 1)
         ELSE IF command(events[k]) = "redo"
              THEN lib_edit_events(lib_commanded(s, "redo", lib_redo(s.u, s.pixels)),
                                   events, k + 1)
              ELSE lib_edit_events(s, events, k + 1)

\* The editor after the tick: w is what the pointer's write returned (the
\* tick's brush is not used, lib.rs writes the pointer's pixel)
lib_edit_result(ed, s, cache, w, tick) ==
    [ pixels   |-> w.img.pixels,
      tiles    |-> w.img.tiles,
      textures |-> cache.textures,
      changes  |-> w.changes,
      redo     |-> w.redo,
      ok       |-> s.ok,
      steps    |-> Append(s.steps, "draw")
                      \o (IF tick.pointer = << >> THEN << >> ELSE << "brush" >>),
      commanded |-> [ from |-> [pixels |-> ed.pixels, tiles |-> ed.tiles],
                      to   |-> [pixels |-> s.pixels, tiles |-> ed.tiles] ] ]

\* lib.rs edit() from line 308: draw() has given cache; then set_pixel
\* through the undo tracker over the tile tracker
lib_edit_drawn(ed, s, cache, tick) ==
    lib_edit_result(ed, s, cache,
                    IF tick.pointer = << >>
                    THEN [ changes |-> s.u.changes, redo |-> s.u.redo,
                           img |-> [pixels |-> s.pixels, tiles |-> cache.tiles] ]
                    ELSE lib_set_pixel(s.u, [pixels |-> s.pixels, tiles |-> cache.tiles],
                                       tick.pointer[1], tick.pointer[2], tick.draw_color),
                    tick)

\* lib.rs edit() from line 308, s being the state after the event loop
lib_edit_draw(ed, s, xr, yr, tick) ==
    lib_edit_drawn(ed, s,
                   draw([tiles |-> ed.tiles, textures |-> ed.textures], s.pixels, xr, yr),
                   tick)

\* lib.rs ImageEditor::edit
lib_edit(ed, xr, yr, tick) ==
    lib_edit_draw(ed,
                  lib_edit_events([ u      |-> [changes |-> IF tick.gesture
                                                            THEN lib_new_frame(ed.changes)
                                                            ELSE ed.changes,
                                                redo |-> ed.redo],
                                    pixels |-> ed.pixels,
                                    ok     |-> TRUE,
                                    steps  |-> IF tick.gesture THEN << "new_frame" >>
                                               ELSE << >> ],
                                  tick.events, 1),
                  xr, yr, tick)

(***************************************************************************)
(* LibEditSpec: the lib.rs editor driven tick by tick over the Surface with *)
(* its origin at (0, 0); the pointer stays on the Surface, set_pixel being  *)
(* unchecked.  No frame is ever dropped, so the ticks that push one (a      *)
(* gesture start, a write with an empty done-stack) are capped.             *)
(***************************************************************************)
LibEditStep(tick) ==
    \E r \in { lib_edit([pixels |-> pixels, tiles |-> tiles, textures |-> textures,
                         changes |-> changes, redo |-> redo],
                        x_range, y_range, tick) } :
        /\ pixels' = r.pixels
        /\ tiles' = r.tiles
        /\ textures' = r.textures
        /\ changes' = r.changes
        /\ redo' = r.redo
        /\ assert_ok' = (assert_ok /\ r.ok)
        /\ writes' = IF r.pixels # r.commanded.to.pixels THEN writes + 1 ELSE writes
        /\ last' = [ NoArgs EXCEPT !.op = "lib_edit", !.acted = TRUE ]
        /\ call' = [ op |-> "lib_edit", args |-> tick,
                     ret |-> [ steps |-> r.steps, commanded |-> r.commanded ] ]
        /\ UNCHANGED << surface_vars, max_frames, first_done, first_redo, script >>

LibEditCommand == \E e \in EditEvents : LibEditStep([NoTick EXCEPT !.events = << e >>])

LibEditPaint ==
    /\ writes < MaxDrawnWrites
    /\ \E g \in BOOLEAN, c \in Coords, px \in Pixel :
          /\ (g \/ changes = << >>) => Len(changes) + Len(redo) < MaxHistory
          /\ LibEditStep([NoTick EXCEPT !.gesture = g, !.pointer = c, !.draw_color = px])

LibEditIdle == LibEditStep(NoTick)

LibEditNext == LibEditCommand \/ LibEditPaint \/ LibEditIdle

LibEditInit == LogInit /\ max_frames = MaxHistory

LibEditSpec == LibEditInit /\ [][LibEditNext]_vars

----------------------------------------------------------------------------
(***************************************************************************)
(* CropSpec: a Crop view is taken of the Surface for a requested pair of    *)
(* ranges (empty and reversed ones included), then one pixel is read or     *)
(* written through it.  call.ret.crop is the Crop, call.args.request the    *)
(* ranges asked for, call.args.at the access.  A fault ends the run.        *)
(***************************************************************************)
RequestsX == { << lo, hi >> : lo \in (x_range[1] - 1)..(x_range[2] + 1),
                              hi \in (x_range[1] - 1)..(x_range[2] + 1) }
RequestsY == { << 0, 0 >>, << 0 - 1, 1 >>, << 1, 1 >>, << 1, 0 >> }
AccessX == (x_range[1] - 1)..(x_range[2] + 1)
AccessY == (y_range[1] - 1)..(y_range[2] + 1)

CropNew ==
    /\ call = NoCall
    /\ \E rx \in RequestsX, ry \in RequestsY :
          call' = [ op |-> "crop",
                    args |-> [ request |-> << rx, ry >>, at |-> << >> ],
                    ret |-> [ crop |-> crop(x_range, y_range, rx, ry), fault |-> FALSE,
                              forwarded |-> FALSE, value |-> << >>, before |-> pixels ] ]
    /\ UNCHANGED editor_vars

CropGetPixel ==
    /\ call.op = "crop"
    /\ \E x \in AccessX, y \in AccessY :
          \E r \in { crop_get_pixel(call.ret.crop, pixels, x, y) } :
             call' = [ op |-> "crop_get_pixel",
                       args |-> [ call.args EXCEPT !.at = << x, y >> ],
                       ret |-> [ crop |-> call.ret.crop, fault |-> r.fault,
                                 forwarded |-> r.forwarded, value |-> r.value,
                                 before |-> pixels ] ]
    /\ UNCHANGED editor_vars

CropSetPixel ==
    /\ call.op = "crop"
    /\ \E x \in AccessX, y \in AccessY, v \in Pixel :
          \E r \in { crop_set_pixel(call.ret.crop, pixels, x, y, v) } :
             /\ pixels' = r.pixels
             /\ call' = [ op |-> "crop_set_pixel",
                          args |-> [ call.args EXCEPT !.at = << x, y, v >> ],
                          ret |-> [ crop |-> call.ret.crop, fault |-> r.fault,
                                    forwarded |-> r.forwarded, value |-> r.value,
                                    before |-> pixels ] ]
    /\ UNCHANGED << surface_vars, tiles, textures, changes, redo, max_frames, assert_ok,
                    first_done, first_redo, last, writes, script >>

CropNext == CropNew \/ CropGetPixel \/ CropSetPixel

CropInit == Init /\ max_frames = MaxHistory

CropSpec == CropInit /\ [][CropNext]_vars

----------------------------------------------------------------------------
(***************************************************************************)
(* GroupSpec: the undo log with its gestures counted.  script.gesture is    *)
(* the number of new_frame() calls made; script.done runs parallel to the   *)
(* done-stack and script.undone to the redo stack: for each frame, opened   *)
(* is the number of the new_frame() call that pushed it (0: pushed by       *)
(* set_pixel) and by[k] the number of the gesture that wrote entry k.       *)
(***************************************************************************)
GroupScript == [ gesture |-> 0, done |-> << >>, undone |-> << >> ]

GroupNewFrame ==
    /\ script.gesture < MaxWrites
    /\ NewFrameStep
    /\ \E pushed \in { Append(script.done, [opened |-> script.gesture + 1, by |-> << >>]) } :
          script' = [script EXCEPT !.gesture = @ + 1,
                                   !.done = IF Len(pushed) > max_frames
                                            THEN Tail(pushed) ELSE pushed]
    /\ UNCHANGED call

GroupSetPixel ==
    /\ writes < MaxWrites
    /\ \E x \in CallX, y \in CallY, px \in Pixel : SetPixelStep(x, y, px)
    /\ \E d \in { IF Len(changes') > Len(script.done)
                   THEN Append(script.done, [opened |-> 0, by |-> << >>])
                   ELSE script.done } :
          script' = IF pixels' # pixels
                    THEN [script EXCEPT !.done = [d EXCEPT ![Len(d)].by =
                                                     Append(@, script.gesture)],
                                        !.undone = << >>]
                    ELSE [script EXCEPT !.done = d]
    /\ UNCHANGED call

GroupUndo ==
    /\ UndoStep
    /\ \E j \in { top_non_empty(changes) } :
          script' = [script EXCEPT !.done = SubSeq(@, 1, Max(j - 1, 0)),
                                   !.undone = IF j > 0 THEN Append(@, script.done[j])
                                              ELSE @]
    /\ UNCHANGED call

GroupRedo ==
    /\ RedoStep
    /\ script' = IF redo = << >> THEN script
                 ELSE [script EXCEPT !.done = Append(@, Last(script.undone)),
                                     !.undone = Front(@)]
    /\ UNCHANGED call

GroupNext == GroupNewFrame \/ GroupSetPixel \/ GroupUndo \/ GroupRedo

GroupInit ==
    /\ EditorInit
    /\ x_range[1] = 0
    /\ script = GroupScript

GroupSpec == GroupInit /\ [][GroupNext]_vars

----------------------------------------------------------------------------
(***************************************************************************)
(* ReplaySpec: the undo log with its runs of undo() calls followed by       *)
(* redo() calls counted.  A run starts at an undo() that does not follow an *)
(* undo(): script.snap is the Surface before it, script.held the height of  *)
(* the redo stack before it, script.nundo / script.nredo the calls of the   *)
(* run so far and script.acted the undo() calls of the run that reversed a  *)
(* frame.  new_frame() and set_pixel end the run.                           *)
(***************************************************************************)
ReplayScript == [ phase |-> "log", snap |-> << >>, held |-> 0, nundo |-> 0,
                  nredo |-> 0, acted |-> 0 ]

ReplayNewFrame ==
    /\ NewFrameStep
    /\ script' = ReplayScript
    /\ UNCHANGED call

ReplaySetPixel ==
    /\ writes < MaxWrites
    /\ \E x \in CallX, y \in CallY, px \in Pixel : SetPixelStep(x, y, px)
    /\ script' = ReplayScript
    /\ UNCHANGED call

ReplayUndo ==
    /\ script.phase = "undos" => script.nundo < MaxWrites
    /\ UndoStep
    /\ script' = IF script.phase = "undos"
                 THEN [script EXCEPT !.nundo = @ + 1,
                                     !.acted = IF last'.acted THEN @ + 1 ELSE @]
                 ELSE [ phase |-> "undos", snap |-> pixels, held |-> Len(redo),
                        nundo |-> 1, nredo |-> 0,
                        acted |-> IF last'.acted THEN 1 ELSE 0 ]
    /\ UNCHANGED call

ReplayRedo ==
    /\ script.phase = "redos" => script.nredo < script.nundo
    /\ RedoStep
    /\ script' = IF script.phase = "log" THEN script
                 ELSE [script EXCEPT !.phase = "redos", !.nredo = @ + 1]
    /\ UNCHANGED call

ReplayNext == ReplayNewFrame \/ ReplaySetPixel \/ ReplayUndo \/ ReplayRedo

ReplayInit ==
    /\ EditorInit
    /\ x_range[1] = 0
    /\ script = ReplayScript

ReplaySpec == ReplayInit /\ [][ReplayNext]_vars

----------------------------------------------------------------------------
(***************************************************************************)
(* Properties                                                               *)
(***************************************************************************)
RECURSIVE flatten(_)
flatten(frames) == IF frames = << >> THEN << >> ELSE frames[1] \o flatten(Tail(frames))

recorded(frame, c) == \E k \in 1..Len(frame) : frame[k][1] = c[1] /\ frame[k][2] = c[2]

in_tile(tile, x, y) ==
    LET r == tile_rect(tile) IN r[1] <= x /\ x <= r[2] /\ r[3] <= y /\ y <= r[4]

\* C1: one undo() restores every coordinate recorded in the most recent
\* non-empty done-frame to the value it had before that frame's first write
\* to it and leaves every other pixel unchanged; a redo() right after it
\* restores the Surface to its content before the undo().
C1_UndoRedoInverse ==
    [][ /\ (last'.op = "undo" /\ top_non_empty(changes) > 0) =>
              LET j == top_non_empty(changes)
              IN  /\ j <= Len(first_done)
                  /\ \A c \in Coords :
                        IF recorded(changes[j], c)
                        THEN \E t \in first_done[j] :
                                t[1] = c[1] /\ t[2] = c[2] /\ pixels'[c] = t[3]
                        ELSE pixels'[c] = pixels[c]
        /\ (last.op = "undo" /\ last.acted /\ last'.op = "redo") => pixels' = last.pre
      ]_vars

\* C1 witness: a redo() has just replayed the frame that the undo() before it
\* reversed, and that frame wrote one coordinate twice.
C1_Witness ==
    /\ last.op = "redo" /\ last.acted /\ last.note = "after_undo"
    /\ changes # << >>
    /\ \E k, m \in 1..Len(Last(changes)) :
          k < m /\ Last(changes)[k][1] = Last(changes)[m][1]
                /\ Last(changes)[k][2] = Last(changes)[m][2]

\* C2: a write that changes a pixel empties the redo stack (also after one or
\* more undo() calls), and a redo() right after it changes neither the
\* Surface nor the done-stack.
C2_RedoInvalidation ==
    [][ /\ (last'.op = "set_pixel" /\ pixels' # pixels) => redo' = << >>
        /\ (last.op = "set_pixel" /\ last.acted /\ last'.op = "redo") =>
              (pixels' = pixels /\ changes' = changes)
      ]_vars

\* C2 witness: a redo() that did nothing, right after a changing write that
\* found undone frames on the redo stack.
C2_Witness ==
    last.op = "redo" /\ last.note = "after_clearing_write" /\ ~last.acted /\ redo = << >>

\* C4: with every Surface write made through the undoer, the debug
\* assertions of undo() and redo() hold at every replay step.
C4_ReplayAssertions == assert_ok

\* C4 witness: undo() has replayed a frame after history was evicted and a
\* frame was redone.
C4_Witness ==
    /\ last.op = "undo" /\ last.acted /\ assert_ok
    /\ writes > max_frames
    /\ Len(redo) >= 1 /\ Len(Last(redo)) >= 2

\* C5: for every coordinate recorded in the done-stack, the new value of its
\* last entry (frames oldest to newest, entries in order) is the Surface's
\* current value there, and of two consecutive entries of one coordinate the
\* later one's old value is the earlier one's new value.
C5_DoneLog ==
    LET f == flatten(changes)
    IN  \A k \in 1..Len(f) :
           LET later == { m \in (k + 1)..Len(f) : f[m][1] = f[k][1] /\ f[m][2] = f[k][2] }
           IN  IF later = {}
               THEN f[k][4] = pixels[<< f[k][1], f[k][2] >>]
               ELSE \A m \in later :
                       (\A n \in later : m <= n) => f[m][3] = f[k][4]

\* C5 witness: one coordinate is recorded in two done-frames, after an undo().
C5_Witness ==
    /\ Len(changes) >= 2
    /\ redo # << >>
    /\ \E i, j \in 1..Len(changes) : \E c \in Coords :
          i < j /\ recorded(changes[i], c) /\ recorded(changes[j], c)

\* C6: after N + k strokes (N = max_frames >= 1), each opened by new_frame()
\* and each changing a pixel, N + k (or more) undo() calls leave the Surface
\* as it was after the k oldest strokes: the N most recent are reversed, the
\* k oldest stay applied.
C6_Eviction ==
    ( /\ script.phase = "undos"
      /\ script.nundo >= Len(script.snaps)
      /\ Len(script.snaps) >= max_frames )
    => pixels = script.snaps[Len(script.snaps) - max_frames + 1]

\* C6 witness: more strokes than max_frames, all undo() calls made, and the
\* oldest stroke still shows on the Surface.
C6_Witness ==
    /\ script.phase = "undos"
    /\ script.nundo >= Len(script.snaps)
    /\ Len(script.snaps) > max_frames
    /\ pixels # script.snaps[1]
    /\ pixels = script.snaps[Len(script.snaps) - max_frames + 1]

\* C7: the done-stack never holds more than max_frames frames.
C7_HistoryBound == Len(changes) <= max_frames

\* The patch that sampling the Surface over a tile's drawn region gives:
\* entry (i, j) is the colour of the pixel at the region's origin + (i, j),
\* the transparent sentinel outside the Surface boundaries.
region_patch(tile) ==
    LET r == tile_rect(tile)
    IN  [ k \in 1..(texture_width * texture_width) |->
            LET x == r[1] + ((k - 1) % texture_width)
                y == r[3] + ((k - 1) \div texture_width)
            IN  IF <<x, y>> \in Coords THEN as_rgba(pixels[<<x, y>>]) ELSE TRANSPARENT ]

\* C3: a write through undo tracker -> tile tracker -> Surface appends an
\* undo entry, writes the Surface and marks the existing tile that owns
\* (x, y) dirty if and only if the new value differs from the current one;
\* with an equal value no entry is appended, the Surface and every dirty
\* flag stay as they are and the redo stack is not cleared.
C3_WriteSuppression ==
    \A c \in Coords : \A px \in Pixel :
        LET r == set_pixel_checked([changes |-> changes, redo |-> redo],
                                   [pixels |-> pixels, tiles |-> tiles],
                                   x_range, y_range, c[1], c[2], px)
        IN  IF px # pixels[c]
            THEN /\ flatten(r.changes) = Append(flatten(changes), << c[1], c[2], pixels[c], px >>)
                 /\ r.img.pixels = [pixels EXCEPT ![c] = px]
                 /\ \A t \in DOMAIN tiles : in_tile(t, c[1], c[2]) => r.img.tiles[t].is_dirty
            ELSE /\ flatten(r.changes) = flatten(changes)
                 /\ r.img.pixels = pixels
                 /\ r.img.tiles = tiles
                 /\ r.redo = redo

\* C8: notify_change(x, y), and so a write through the tile tracker, sets the
\* dirty flag of the existing tile containing (x, y) and of no other tile,
\* creates no tile, changes nothing when no existing tile contains (x, y),
\* and marking twice equals marking once.
C8_DirtyScoping ==
    \A x \in CallX, y \in CallY :
        LET after == notify_change(tiles, x, y)
        IN  /\ DOMAIN after = DOMAIN tiles
            /\ \A t \in DOMAIN tiles :
                  after[t] = IF in_tile(t, x, y) THEN [tiles[t] EXCEPT !.is_dirty = TRUE]
                             ELSE tiles[t]
            /\ notify_change(after, x, y) = after
            /\ \A px \in Pixel :
                  <<x, y>> \in Coords =>
                     tracker_set_pixel([pixels |-> pixels, tiles |-> tiles], x, y, px).tiles = after

\* C9: the tile owning (x, y) is (floor(x / w), floor(y / w)): for negative
\* coordinates too, the tile notify_change(x, y) looks up and marks is the
\* existing tile whose drawn region contains (x, y).
C9_TileOfPixel ==
    \A x \in CallX, y \in CallY : \A t \in DOMAIN tiles :
        /\ in_tile(t, x, y) <=> (t = calc_tile(x, y))
        /\ in_tile(t, x, y) => t = << x \div texture_width, y \div texture_width >>

\* C10: every existing tile whose dirty flag is clear holds the texture patch
\* that sampling the current Surface over the tile's region gives.
C10_CacheCoherence ==
    \A t \in DOMAIN tiles :
        ~tiles[t].is_dirty => textures[tiles[t].tex_id] = region_patch(t)

\* The tiles draw() visits over the current boundaries
drawn_range == { draw_order(x_range, y_range)[k] : k \in 1..Len(draw_order(x_range, y_range)) }

\* C11: texture lifecycle.  No step removes a tile or gives a tile another
\* texture; textures are allocated by draw() only, one per tile that enters
\* the table, and the tile is created clean; a draw() replaces the texture
\* of exactly the tiles that were dirty (with the freshly sampled patch),
\* leaves the texture of a clean tile as it is, and leaves no tile of the
\* drawn range dirty.
C11_TextureLifecycle ==
    [][ /\ DOMAIN tiles \subseteq DOMAIN tiles'
        /\ \A t \in DOMAIN tiles : tiles'[t].tex_id = tiles[t].tex_id
        /\ Len(textures') = Len(textures) + Cardinality(DOMAIN tiles' \ DOMAIN tiles)
        /\ \A t, u \in DOMAIN tiles' : t # u => tiles'[t].tex_id # tiles'[u].tex_id
        /\ last'.op # "draw" => (DOMAIN tiles' = DOMAIN tiles /\ textures' = textures)
        /\ last'.op = "draw" =>
              /\ DOMAIN tiles' = DOMAIN tiles \cup drawn_range
              /\ \A t \in drawn_range : ~tiles'[t].is_dirty
              /\ \A t \in drawn_range \ DOMAIN tiles :
                    /\ tiles'[t].tex_id \in (Len(textures) + 1)..Len(textures')
                    /\ textures'[tiles'[t].tex_id] = get_patch(pixels, x_range, y_range, t)
              /\ \A t \in DOMAIN tiles :
                    textures'[tiles[t].tex_id] =
                        IF tiles[t].is_dirty /\ t \in drawn_range
                        THEN get_patch(pixels, x_range, y_range, t)
                        ELSE textures[tiles[t].tex_id]
      ]_vars

\* C11 witness: a draw() has just run, every tile is clean, and some tile's
\* texture is no longer the patch it was allocated with (it was replaced).
C11_Witness ==
    /\ last.op = "draw"
    /\ writes > 0
    /\ \A t \in DOMAIN tiles : ~tiles[t].is_dirty
    /\ \E t \in DOMAIN tiles :
          textures[tiles[t].tex_id] #
             get_patch([c \in Coords |-> InitPixel(c)], x_range, y_range, t)

\* C12: for every tile draw() visits, with origin (X, Y) = (tile_x * w,
\* tile_y * w), the patch get_patch builds has w * w entries, and entry
\* (i, j), at index i + j * w, is the displayable colour of the Surface pixel
\* (X + i, Y + j) inside the boundaries and the transparent sentinel outside
\* them, whatever the boundary rectangle.
C12_PatchSampling ==
    \A t \in drawn_range :
        LET patch == get_patch(pixels, x_range, y_range, t)
        IN  /\ Len(patch) = texture_width * texture_width
            /\ \A i, j \in 0..(texture_width - 1) :
                  patch[i + j * texture_width + 1] =
                     IF bounds_check(x_range, y_range, t[1] * texture_width + i,
                                                       t[2] * texture_width + j)
                     THEN as_rgba(pixels[<< t[1] * texture_width + i, t[2] * texture_width + j >>])
                     ELSE TRANSPARENT

Abs(v) == IF v < 0 THEN 0 - v ELSE v

\* C13: for all half-extents wx, wy from 0, all x in [-wx, wx] and all y in
\* [-wx, wx], ellipse(wx, wy, x, y) holds if and only if
\* |y| <= solve_ellipse(wx, wy, x), and solve_ellipse returns what the naive
\* downward scan returns (wx = 0 and wy = 0 included).
C13_SolverExactness ==
    call.op = "solve_ellipse" =>
        LET wx == call.args[1]
            wy == call.args[2]
            x  == call.args[3]
        IN  /\ ~call.ret.fault
            /\ \A y \in (0 - wx)..wx :
                  ellipse(wx, wy, x, y) <=> (Abs(y) <= call.ret.ret)
            /\ call.ret.ret = solve_ellipse_naive(wx, wy, x)

\* C13 witness: the solver has returned a boundary strictly between 0 and wy.
C13_Witness ==
    /\ call.op = "solve_ellipse"
    /\ call.args[1] > 0
    /\ 0 < call.ret.ret /\ call.ret.ret < call.args[2]
    /\ call.ret.iters >= 2

\* The discrete ellipse inequality dy^2 hw^2 <= hw^2 hh^2 - hh^2 dx^2
covered(hw, hh, dx, dy) ==
    (dy * dy) * (hw * hw) <= (hw * hw) * (hh * hh) - (hh * hh) * (dx * dx)

\* m(dy): the largest dx in [0, hw] that satisfies the inequality
widest(hw, hh, dy) ==
    CHOOSE dx \in 0..hw :
        /\ covered(hw, hh, dx, dy)
        /\ \A d \in 0..hw : covered(hw, hh, d, dy) => d <= dx

\* The coordinates f was called with
visited(calls) == { calls[k] : k \in 1..Len(calls) }

\* C14: Brush::Ellipse(hw, hh).pixels(cx, cy, f) of brush.rs calls f exactly
\* once for each (cx + dx, cy + dy) with |dy| <= hh and |dx| <= m(dy) and
\* for no other coordinate, and the visited set is the set of bounding-box
\* offsets that satisfy the ellipse inequality.
C14_EllipseFill ==
    (call.op = "pixels" /\ call.args[1].kind = "Ellipse") =>
        LET hw    == call.args[1].wx
            hh    == call.args[1].wy
            cx    == call.args[2]
            cy    == call.args[3]
            calls == call.ret.calls
            box   == { << dx, dy >> : dx \in (0 - hw)..hw, dy \in (0 - hh)..hh }
        IN  /\ ~call.ret.fault
            /\ \A k, n \in 1..Len(calls) : k # n => calls[k] # calls[n]
            /\ visited(calls) = { << cx + o[1], cy + o[2] >> :
                                     o \in { b \in box : Abs(b[1]) <= widest(hw, hh, b[2]) } }
            /\ visited(calls) = { << cx + o[1], cy + o[2] >> :
                                     o \in { b \in box : covered(hw, hh, b[1], b[2]) } }

\* C14 witness: an ellipse with two different half-extents of 2 or more was
\* filled, and the fill leaves out part of the bounding box.
C14_Witness ==
    /\ call.op = "pixels" /\ call.args[1].kind = "Ellipse"
    /\ call.args[1].wx >= 2 /\ call.args[1].wy > call.args[1].wx
    /\ Len(call.ret.calls) > 1
    /\ Len(call.ret.calls) < (2 * call.args[1].wx + 1) * (2 * call.args[1].wy + 1)

\* C15: an ellipse brush with half-extent 0 on one axis covers exactly the
\* line of the other axis (Ellipse(0, h): dx = 0, dy in [-h, h]; Ellipse(w, 0):
\* dy = 0, dx in [-w, w]), Ellipse(0, 0) covers exactly the centre pixel, and
\* the covered set is never empty: in brush.rs and in image_editor.rs alike.
C15_DegenerateEllipse ==
    ( /\ call.op \in {"pixels", "editor_pixels"}
      /\ call.args[1].kind = "Ellipse"
      /\ (call.args[1].wx = 0 \/ call.args[1].wy = 0) ) =>
        LET hw == call.args[1].wx
            hh == call.args[1].wy
        IN  /\ call.ret.calls # << >>
            /\ visited(call.ret.calls) =
                  { << call.args[2] + dx, call.args[3] + dy >> :
                       dx \in (0 - hw)..hw, dy \in (0 - hh)..hh }

\* ceil(log2(n)) for n >= 1 (0 for n = 0)
ceil_log2(n) ==
    IF n <= 1 THEN 0
    ELSE CHOOSE k \in 1..n : 2^k >= n /\ 2^(k - 1) < n

\* C16: for wx >= 0, wy >= 0 and x in [-wx, wx], solve_ellipse returns a value
\* in [0, wy] after at most ceil(log2(wy)) + 1 loop iterations, one iteration
\* when wy = 0, and never reaches the unreachable!() after the loop.
C16_SolverTermination ==
    call.op = "solve_ellipse" =>
        LET wy == call.args[2]
        IN  /\ ~call.ret.fault
            /\ call.ret.ret \in 0..wy
            /\ call.ret.iters <= ceil_log2(wy) + 1
            /\ wy = 0 => call.ret.iters = 1

\* C16 witness: a call that took all of the ceil(log2(wy)) + 1 iterations,
\* four or more.
C16_Witness ==
    /\ call.op = "solve_ellipse"
    /\ call.ret.iters = ceil_log2(call.args[2]) + 1
    /\ call.ret.iters >= 4

\* C17: applying Brush::Rectangle(hw, hh) at (cx, cy) through bounds-checked
\* writes sets to the draw colour exactly the Surface pixels of
\* [cx-hw, cx+hw] x [cy-hh, cy+hh] inside the boundaries and changes no other
\* pixel; when the stroke is a gesture of its own that changed a pixel, one
\* undo() restores the Surface of before the stroke and one redo() after it
\* the Surface of after the stroke.
C17_RectangleStroke ==
    /\ (call.op = "edit" /\ call.args.pointer # << >> /\ call.args.brush.kind = "Rectangle") =>
          LET hw     == call.args.brush.wx
              hh     == call.args.brush.wy
              cx     == call.args.pointer[1]
              cy     == call.args.pointer[2]
              before == call.ret.commanded.to.pixels
          IN  /\ pixels = [ c \in Coords |->
                             IF Abs(c[1] - cx) <= hw /\ Abs(c[2] - cy) <= hh
                             THEN call.args.draw_color ELSE before[c] ]
              /\ visited(brush_pixels(call.args.brush, cx, cy).calls) =
                    { << x, y >> : x \in (cx - hw)..(cx + hw), y \in (cy - hh)..(cy + hh) }
    /\ script.phase = "undone" => pixels = script.snaps[1]
    /\ script.phase = "redone" => pixels = script.snaps[2]

\* C17 witness: a rectangle stroke that changed two pixels or more, partly
\* outside the boundaries, has been undone and then redone.
C17_Witness ==
    /\ script.phase = "redone"
    /\ pixels = script.snaps[2]
    /\ Cardinality({ c \in Coords : script.snaps[1][c] # script.snaps[2][c] }) >= 2

\* C20: a key-down of the undo key (Z) with primary + shift invokes redo()
\* and not undo(); primary + the redo key (Y) invokes redo(); primary + the
\* undo key without shift invokes undo(); every other event invokes neither.
C20_CommandMapping ==
    (call.op = "edit" /\ Len(call.args.events) = 1) =>
        LET e       == call.args.events[1]
            down    == e.kind = "Key" /\ e.pressed
            primary == "COMMAND" \in e.modifiers
            shift   == "SHIFT" \in e.modifiers
        IN  invoked(call.ret.steps) =
               IF down /\ e.key = "Z" /\ primary /\ shift THEN << "redo" >>
               ELSE IF down /\ e.key = "Y" /\ primary THEN << "redo" >>
               ELSE IF down /\ e.key = "Z" /\ primary /\ ~shift THEN << "undo" >>
               ELSE << >>

\* The place of a step in the order new_frame, commands, draw, brush
rank(step) ==
    IF step = "new_frame" THEN 1
    ELSE IF step \in {"undo", "redo"} THEN 2
    ELSE IF step = "draw" THEN 3
    ELSE 4

\* C19: within one tick the editor performs the gesture-start new_frame(),
\* then the undo/redo commands of the tick's events, then the draw pass, then
\* the brush application; so the textures the tick's draw pass leaves show
\* the Surface that results from the tick's undo/redo commands.
C19_TickOrdering ==
    call.op = "edit" =>
        /\ \A i, j \in 1..Len(call.ret.steps) :
              i < j => rank(call.ret.steps[i]) <= rank(call.ret.steps[j])
        /\ \A t \in drawn_range :
              textures[tiles[t].tex_id] =
                 get_patch(call.ret.commanded.to.pixels, x_range, y_range, t)

\* C18: every pixel whose value an undo or redo command of a tick changed
\* went through the tile tracker: the existing tile whose region holds the
\* pixel is dirty after the commands, and the draw pass that follows
\* renders the restored value into that tile's texture.
C18_CommandsMarkTiles ==
    call.op \in {"edit", "lib_edit"} =>
        LET from == call.ret.commanded.from
            to   == call.ret.commanded.to
            next == draw([tiles |-> to.tiles, textures |-> textures],
                         to.pixels, x_range, y_range)
        IN  \A c \in Coords :
               from.pixels[c] # to.pixels[c] =>
                  \A t \in DOMAIN from.tiles :
                     in_tile(t, c[1], c[2]) =>
                        /\ to.tiles[t].is_dirty
                        /\ next.textures[to.tiles[t].tex_id] =
                              get_patch(to.pixels, x_range, y_range, t)

CropOps == {"crop", "crop_get_pixel", "crop_set_pixel"}

\* C21: for every inner boundary and every requested x_range, y_range, the
\* boundaries a Crop reports are, on each axis, the intersection of the
\* request with the inner boundaries (the larger start, the smaller end):
\* never wider than the request or the inner boundaries, and the same
\* after an access through the Crop as at construction.
C21_CropClamping ==
    call.op \in CropOps =>
        LET b  == crop_image_boundaries(call.ret.crop)
            rx == call.args.request[1]
            ry == call.args.request[2]
        IN  /\ b[1] = << Max(rx[1], x_range[1]), Min(rx[2], x_range[2]) >>
            /\ b[2] = << Max(ry[1], y_range[1]), Min(ry[2], y_range[2]) >>
            /\ \A v \in AccessX \cup AccessY \cup {0 - 1, 0, 1} :
                  /\ contains(b[1], v) <=> (contains(rx, v) /\ contains(x_range, v))
                  /\ contains(b[2], v) <=> (contains(ry, v) /\ contains(y_range, v))

\* C21 witness: a Crop whose request sticks out of the Surface on the left
\* and ends inside it has been written through.
C21_Witness ==
    /\ call.op = "crop_set_pixel"
    /\ ~call.ret.fault
    /\ call.args.request[1][1] < x_range[1]
    /\ x_range[1] <= call.args.request[1][2] /\ call.args.request[1][2] < x_range[2]
    /\ pixels # call.ret.before

\* C22: get_pixel or set_pixel on a Crop at a coordinate outside the Crop's
\* clamped ranges faults before the inner Surface is touched, and the
\* Surface is unchanged; inside the ranges the access goes to the inner
\* Surface at the same coordinate and does not fault.
C22_CropFault ==
    call.op \in {"crop_get_pixel", "crop_set_pixel"} =>
        LET c      == call.ret.crop
            x      == call.args.at[1]
            y      == call.args.at[2]
            inside == contains(c.x_range, x) /\ contains(c.y_range, y)
        IN  /\ ~inside => /\ call.ret.fault
                          /\ ~call.ret.forwarded
                          /\ pixels = call.ret.before
            /\ inside => /\ ~call.ret.fault
                         /\ call.ret.forwarded
                         /\ call.op = "crop_get_pixel" =>
                               /\ call.ret.value = << call.ret.before[<< x, y >>] >>
                               /\ pixels = call.ret.before
                         /\ call.op = "crop_set_pixel" =>
                               pixels = [call.ret.before EXCEPT ![<< x, y >>] = call.args.at[3]]

\* C22 witness: a write through a Crop narrower than the Surface, at a
\* coordinate of the Surface outside the Crop, has faulted.
C22_Witness ==
    /\ call.op = "crop_set_pixel"
    /\ call.ret.fault
    /\ << call.args.at[1], call.args.at[2] >> \in Coords
    /\ call.args.at[3] # pixels[<< call.args.at[1], call.args.at[2] >>]

\* C23: set_pixel_checked(x, y, px) returns true and applies the write
\* exactly when (x, y) is inside the reported boundaries, and otherwise
\* returns false with the Surface, the undo log and the tile dirty flags
\* unchanged; get_pixel_checked returns the pixel inside the boundaries and
\* no value outside; a brush stroke with offsets or its centre off the
\* canvas does not fault and changes exactly its in-boundary pixels.
C23_CheckedAccess ==
    /\ \A x \in AccessX, y \in AccessY :
          /\ bounds_check(x_range, y_range, x, y) <=> << x, y >> \in DOMAIN pixels
          /\ get_pixel_checked([pixels |-> pixels, tiles |-> tiles], x_range, y_range, x, y)
                = IF << x, y >> \in Coords THEN << pixels[<< x, y >>] >> ELSE << >>
          /\ \A px \in Pixel :
                \E r \in { set_pixel_checked([changes |-> changes, redo |-> redo],
                                             [pixels |-> pixels, tiles |-> tiles],
                                             x_range, y_range, x, y, px) } :
                   /\ r.ret <=> << x, y >> \in Coords
                   /\ r.ret => r.img.pixels = [pixels EXCEPT ![<< x, y >>] = px]
                   /\ ~r.ret => /\ r.img.pixels = pixels
                                /\ r.img.tiles = tiles
                                /\ r.changes = changes
                                /\ r.redo = redo
    /\ (call.op = "edit" /\ call.args.pointer # << >>) =>
          LET before == call.ret.commanded.to.pixels
              calls  == editor_brush_pixels(call.args.brush, call.args.pointer[1],
                                            call.args.pointer[2]).calls
          IN  /\ pixels = [ c \in Coords |->
                             IF c \in visited(calls) THEN call.args.draw_color
                             ELSE before[c] ]
              /\ assert_ok
              /\ \A k \in 1..Len(flatten(changes)) :
                    << flatten(changes)[k][1], flatten(changes)[k][2] >> \in Coords

\* C23 witness: a brush whose centre is off the canvas has been applied:
\* some of its offsets were dropped and one changed a pixel.
C23_Witness ==
    /\ call.op = "edit"
    /\ call.args.pointer # << >>
    /\ call.args.pointer \notin Coords
    /\ pixels # call.ret.commanded.to.pixels
    /\ visited(editor_brush_pixels(call.args.brush, call.args.pointer[1],
                                   call.args.pointer[2]).calls) \ Coords # {}

\* C24: over every step of the core operations (writes through the
\* trackers, undo, redo, draw) the Surface's reported boundary ranges
\* contain the ranges it reported before the step, the Surface holds a
\* pixel for exactly the coordinates it reports, and the tile tracker and
\* the undo tracker over it report exactly the Surface's boundaries.
C24_BoundaryMonotonicity ==
    [][ /\ x_range'[1] <= x_range[1] /\ x_range[2] <= x_range'[2]
        /\ y_range'[1] <= y_range[1] /\ y_range[2] <= y_range'[2]
        /\ DOMAIN pixels' = { << x, y >> : x \in x_range'[1]..x_range'[2],
                                           y \in y_range'[1]..y_range'[2] }
        /\ tracker_image_boundaries(<< x_range', y_range' >>) = << x_range', y_range' >>
        /\ undo_tracker_image_boundaries(tracker_image_boundaries(<< x_range', y_range' >>))
              = << x_range', y_range' >> ]_vars

\* C24 witness: a write through the trackers has been undone over a drawn
\* tile table, on the Surface whose boundaries are not whole tiles.
C24_Witness ==
    /\ last.op = "undo" /\ last.acted
    /\ tiles # << >>
    /\ x_range = << 0, 2 >>

\* C25: undo() with the done-stack empty or holding only empty frames, and
\* redo() with the redo stack empty, return without a fault and leave the
\* Surface and the redo stack unchanged; redo() with the redo stack empty
\* leaves the done-stack unchanged as well.
C25_EmptyHistoryNoOp ==
    [][ /\ (last'.op = "undo" /\ top_non_empty(changes) = 0) =>
              /\ pixels' = pixels
              /\ redo' = redo
              /\ assert_ok' = assert_ok
        /\ (last'.op = "redo" /\ redo = << >>) =>
              /\ pixels' = pixels
              /\ redo' = redo
              /\ changes' = changes
              /\ assert_ok' = assert_ok
      ]_vars

\* C25 witness: an undo() has found only empty frames on the done-stack,
\* with an undone frame waiting on the redo stack.
C25_Witness ==
    /\ last.op = "undo" /\ ~last.acted /\ last.note = "skipped_empty_frames"
    /\ changes = << >>
    /\ redo # << >>

\* Every frame of the two stacks, with its history
group_frames == { script.done[i] : i \in 1..Len(script.done) }
                   \cup { script.undone[i] : i \in 1..Len(script.undone) }

\* C26: each frame holds the deltas of exactly one gesture: every
\* pixel-changing write made after a new_frame() call and before the next
\* one is recorded in the frame that call opened, also with undo() or
\* redo() invoked in between, and no frame holds a write made before the
\* new_frame() that opened it, so one undo() never reverses writes of two
\* gestures.
C26_FrameGrouping ==
    \A f \in group_frames :
        /\ \A k \in 1..Len(f.by) : f.by[k] >= 1 => f.by[k] = f.opened
        /\ \A k, m \in 1..Len(f.by) : f.by[k] = f.by[m]

\* The history of GroupSpec runs parallel to the two stacks
GroupParallel ==
    /\ Len(script.done) = Len(changes)
    /\ Len(script.undone) = Len(redo)
    /\ \A i \in 1..Len(changes) : Len(script.done[i].by) = Len(changes[i])
    /\ \A i \in 1..Len(redo) : Len(script.undone[i].by) = Len(redo[i])

\* A frame on the done-stack holds writes of two gestures
GroupMixed == \E i \in 1..Len(script.done) :
                 \E k, m \in 1..Len(script.done[i].by) :
                    script.done[i].by[k] # script.done[i].by[m]

\* The Surface px after the entries k.. of frame were written forward
RECURSIVE forward(_, _, _)
forward(px, frame, k) ==
    IF k > Len(frame) THEN px
    ELSE forward([px EXCEPT ![<< frame[k][1], frame[k][2] >>] = frame[k][4]], frame, k + 1)

\* C27: redo() removes the top frame of the redo stack, applies its entries
\* in forward order writing new, and pushes that frame onto the done-stack
\* (so that a frame that is applied is never replayed by a later redo(): no
\* replay assertion fails).  Stated for the ticks of the editor that invoke
\* one redo() and nothing else.
C27_RedoMovesFrame ==
    [][ ( /\ call'.op \in {"edit", "lib_edit"}
          /\ invoked(call'.ret.steps) = << "redo" >>
          /\ ~call'.args.gesture /\ call'.args.pointer = << >>
          /\ redo # << >> ) =>
              /\ redo' = Front(redo)
              /\ changes' = Append(changes, Last(redo))
              /\ pixels' = forward(pixels, Last(redo), 1)
              /\ assert_ok' = assert_ok
      ]_vars

\* The Surface px after the entries k, k - 1, .. 1 of frame were written
\* back (old values)
RECURSIVE backward(_, _, _)
backward(px, frame, k) ==
    IF k < 1 THEN px
    ELSE backward([px EXCEPT ![<< frame[k][1], frame[k][2] >>] = frame[k][3]], frame, k - 1)

\* C28 as stated: for every k, k consecutive undo() calls followed by k
\* consecutive redo() calls with no write in between restore the Surface to
\* its content before the first undo().
C28_ReplayOrder ==
    (script.phase = "redos" /\ script.nredo = script.nundo) => pixels = script.snap

\* C28 amended: k consecutive undo() calls followed by k consecutive redo()
\* calls restore the Surface to its content before the first undo() when
\* each of the k undo() calls reversed a frame or the redo stack was empty
\* before the first one; undo() reverses the newest non-empty frame with its
\* entries applied last to first writing old and pushes it onto the redo
\* stack, redo() replays the frame undone last with its entries applied
\* first to last writing new and pushes it onto the done-stack, also when a
\* coordinate is recorded several times.
C28_ReplayOrderAmended ==
    [][ /\ ( /\ script'.phase = "redos" /\ script'.nredo = script'.nundo
              /\ (script'.acted = script'.nundo \/ script'.held = 0) )
            => pixels' = script'.snap
        /\ (last'.op = "undo" /\ top_non_empty(changes) > 0) =>
              /\ pixels' = backward(pixels, changes[top_non_empty(changes)],
                                     Len(changes[top_non_empty(changes)]))
              /\ redo' = Append(redo, changes[top_non_empty(changes)])
              /\ changes' = SubSeq(changes, 1, top_non_empty(changes) - 1)
        /\ (last'.op = "redo" /\ redo # << >>) =>
              /\ pixels' = forward(pixels, Last(redo), 1)
              /\ changes' = Append(changes, Last(redo))
              /\ redo' = Front(redo)
      ]_vars

\* C28 witness: two undo() calls and two redo() calls have gone over two
\* frames, one coordinate being recorded twice in one frame and once more
\* in the other.
C28_Witness ==
    /\ script.phase = "redos" /\ script.nundo = 2 /\ script.nredo = 2
    /\ script.acted = 2
    /\ pixels = script.snap
    /\ Len(changes) >= 2
    /\ \E c \in Coords, i, j \in 1..Len(changes) :
          /\ i # j
          /\ recorded(changes[j], c)
          /\ \E k, m \in 1..Len(changes[i]) :
                k < m /\ changes[i][k][1] = c[1] /\ changes[i][k][2] = c[2]
                      /\ changes[i][m][1] = c[1] /\ changes[i][m][2] = c[2]

\* C29: for every ellipse half-extents (hw, hh) >= 0 the offsets Brush::pixels
\* fills are the offsets the outline of Brush::draw encloses,
\* {(dx, dy) : |dx| <= m_row(dy)} = {(dx, dy) : |dy| <= m_col(dx)}, and this
\* for every implementation of the ellipse fill in the source (brush.rs and
\* image_editor.rs): all use the same inequality on boundary pixels.
C29_FillOutlineAgreement ==
    (call.op \in {"pixels", "editor_pixels"} /\ call.args[1].kind = "Ellipse") =>
        /\ ~call.ret.fault
        /\ { << c[1] - call.args[2], c[2] - call.args[3] >> : c \in visited(call.ret.calls) }
              = brush_draw_enclosed(call.args[1])

\* The same for the fill of brush.rs alone
C29_BrushRsAgreement ==
    (call.op = "pixels" /\ call.args[1].kind = "Ellipse") =>
        { << c[1] - call.args[2], c[2] - call.args[3] >> : c \in visited(call.ret.calls) }
           = brush_draw_enclosed(call.args[1])

\* C30: after draw() every pixel inside the Surface's boundaries lies in the
\* drawn region of exactly one existing tile, for every boundary rectangle,
\* those with negative lower bounds included.
C30_TileCoverage ==
    last.op = "draw" =>
        \A c \in Coords :
            Cardinality({ t \in DOMAIN tiles : in_tile(t, c[1], c[2]) }) = 1

\* The frames of the done-stack and of the redo stack
log_frames == { changes[i] : i \in 1..Len(changes) } \cup { redo[i] : i \in 1..Len(redo) }

\* C31: in every reachable state every entry (x, y, old, new) of every frame
\* of the done-stack and of the redo stack has old # new, and a frame whose
\* entries were all written with one draw colour records each coordinate at
\* most once, also when the stroke passed over it again.
C31_SparseLog ==
    \A f \in log_frames :
        /\ \A k \in 1..Len(f) : f[k][3] # f[k][4]
        /\ (\A k, m \in 1..Len(f) : f[k][4] = f[m][4]) =>
              \A k, m \in 1..Len(f) :
                 k < m => << f[k][1], f[k][2] >> # << f[m][1], f[m][2] >>

\* C31 witness: a tick inside a gesture has applied the brush again over a
\* pixel the gesture's frame records with the same draw colour, and nothing
\* was written or recorded.
C31_Witness ==
    /\ call.op = "edit"
    /\ ~call.args.gesture /\ call.args.pointer # << >>
    /\ pixels = call.ret.commanded.to.pixels
    /\ changes # << >>
    /\ \E k \in 1..Len(Last(changes)) :
          /\ << Last(changes)[k][1], Last(changes)[k][2] >>
                \in visited(editor_brush_pixels(call.args.brush, call.args.pointer[1],
                                                call.args.pointer[2]).calls)
          /\ Last(changes)[k][4] = call.args.draw_color
    /\ \A k, m \in 1..Len(Last(changes)) : Last(changes)[k][4] = Last(changes)[m][4]

====
